---------------------------- MODULE Spec2Model ----------------------------
(***************************************************************************)
(* A model of the task-map design of github.com/brunotm/streams: the       *)
(* topology (src/topology.go), the nodes (src/node.go), the processor      *)
(* context (src/context.go), the per-node task layer (src/task.go) and     *)
(* the Stream life cycle (src/stream.go, lines 273-455).                   *)
(*                                                                         *)
(* One client goroutine builds a topology with the add operations, may     *)
(* call validate, calls Stream.Start once and Stream.Close a bounded       *)
(* number of times.  User code (Init, Consume) holds the contexts the      *)
(* engine handed out and may call Store, Error, Forward and ForwardTo on  *)
(* them at any time.                                                       *)
(*                                                                         *)
(* The repository also holds the earlier child-context design of the       *)
(* Stream (src/stream.go, lines 58-227, src/builder.go and the Context of  *)
(* src/unnamed/part_000), the only one with Stream.Scale and               *)
(* Stream.Contexts; it is modelled as the specification SpecChild.         *)
(***************************************************************************)
EXTENDS Integers, Sequences, FiniteSets, TLC

(***************************************************************************)
(* Bounds of the model.                                                    *)
(***************************************************************************)
MaxNodes == 3      \* Node objects allocated by the add operations
MaxPreds == 2      \* predecessor names given to one add operation
MaxCount == 1      \* largest configured tasks.count of a node
MaxBufferSize == 1 \* largest configured tasks.buffer_size of a node
MaxCloses == 2     \* calls of Stream.Close by the client
MaxRecords == 2    \* Records made by NewRecord
MaxBytes == 1      \* length of an encoded key or value
MaxScale == 2      \* largest scale the client asks of Stream.Scale
MaxContexts == 2   \* Contexts the calls of Stream.Start make
MaxAlive == 2      \* child goroutines of one Context that have not returned
MaxQueued == 1     \* records a source has put in its buffer and no child took
MaxOps == 3        \* Set, Delete and Get calls on a store
MaxSets == 2       \* Config.Set calls on one Config
MaxPath == 3       \* elements of a configuration path

Names == {"a", "b"}

\* types.Type of a node (src/types/types.go:38-49)
Source == "source"
Processor == "processor"
Sink == "sink"
Store == "store"
Types == {Source, Processor, Sink, Store}

NIL == [nil |-> TRUE]

VARIABLES
    objs,      \* the Node objects allocated so far: objs[id] is *Node id
    tnodes,    \* topology.nodes: sequence of node ids
    troots,    \* topology.roots: sequence of node ids
    tstores,   \* topology.stores: set of <<name, id>> pairs (a Go map)
    addErr,    \* error returned by the last add operation or validate
    config,    \* Stream.config: per node name its tasks.count and
               \* tasks.buffer_size, each <<>> (no entry) or <<value>>
    pc,        \* position of the client goroutine
    tasksMap,  \* Stream.tasks: node id -> NIL | tasks (a nil map has no key)
    ctxOf,     \* Node.context: node id -> NIL | [active]
    procOf,    \* Node.processor: node id -> NIL | [closer]
    consume,   \* per node id: the goroutine running Source.Consume
    crashed,   \* "no", "fatal" (runtime fatal error) or "panic"
    startRet,  \* what Stream.Start returned: "none", "nil" or "err"
    closeRet,  \* what the current or last Stream.Close returned
    nCloses,   \* number of Stream.Close calls begun
    closeCalls,\* per node id: Close() calls on its instance in this Stream.Close
    closerErr, \* some Closer returned an error during this Stream.Close
    closeInst, \* ids whose instance implemented Closer when this Close began
    call,      \* the last call of user code on a context and its result
    initCalls, \* per node id: calls of Node.init during Stream.Start
    addCall,   \* the last add operation or validate call and its arguments
    handler,   \* Stream.handler: TRUE when the stream has an error handler
    cloned,    \* the topology the last clone() returned, and its error
    records,   \* the Records NewRecord has returned, in the order of the calls
    sources,   \* child-context design: names of the builder's sources
    closed,    \* child-context design: Stream.closed
    contexts,  \* child-context design: Stream.contexts, ids of Contexts
    heap,      \* child-context design: the Context objects, by id
    ret,       \* child-context design: the client's last call and its result
    scaled,    \* child-context design: a Scale call has grown / shrunk a context
    db,        \* a store: which DB it is and the content of its collection
    hist,      \* the Set, Delete and Get calls on the store and their results
    rng,       \* the Range call on the store that is running, if any
    conf,      \* a Config made by NewConfig(nil): its data
    setLog     \* the Config.Set calls made on conf, in order

topoVars == <<objs, tnodes, troots, tstores, addErr, addCall, cloned>>
runVars == <<tasksMap, ctxOf, procOf, consume, initCalls>>
closeVars == <<closeRet, nCloses, closeCalls, closerErr, closeInst>>
childVars == <<sources, closed, contexts, heap, ret, scaled>>
storeVars == <<db, hist, rng>>
confVars == <<conf, setLog>>
userVars == <<handler, records, childVars, storeVars, confVars>>
vars == <<objs, tnodes, troots, tstores, addErr, config, pc, tasksMap, ctxOf,
          procOf, consume, crashed, startRet, closeRet, nCloses, closeCalls,
          closerErr, closeInst, call, initCalls, addCall, handler,
          cloned, records, sources, closed, contexts, heap, ret, scaled,
          db, hist, rng, conf, setLog>>

Ids == 1..MaxNodes

\* child-context design: no call of the client yet
NoRet == [op |-> "none", name |-> "", scale |-> 0, fail |-> 0,
          res |-> "none", infos |-> <<>>]

\* the data of a Config (src/config.go:37-39): a map[string]interface{}, a
\* []interface{}, a scalar, or nil
MapOf(f) == [t |-> "map", m |-> f]
ArrOf(a) == [t |-> "arr", a |-> a]
ValOf(v) == [t |-> "val", v |-> v]
Nil == [t |-> "nil"]

\* NewConfig(nil): an empty map
NewConfig == MapOf(<<>>)

\* a store before Init, and no Range call running
NoDB == [kind |-> "none", data |-> <<>>]
NoRange == [at |-> "idle", atCall |-> {}, snap |-> <<>>, i |-> 0,
            seen |-> <<>>]

NoAdd == [op |-> "none", name |-> "", typ |-> "", preds |-> <<>>]

\* handled: the Error structs the stream's handler received during the call
NoCall == [op |-> "none", node |-> 0, arg |-> "", records |-> <<>>,
           res |-> "none", handled |-> <<>>]

(***************************************************************************)
(* Topology (src/topology.go).                                             *)
(***************************************************************************)

\* topology.getNode: the first node of t.nodes with the given name, 0 for nil
RECURSIVE GetNodeFrom(_, _, _, _)
GetNodeFrom(os, ns, name, i) ==
    IF i > Len(ns) THEN 0
    ELSE IF os[ns[i]].name = name THEN ns[i]
    ELSE GetNodeFrom(os, ns, name, i + 1)

getNode(os, ns, name) == GetNodeFrom(os, ns, name, 1)

\* the loop over the predecessors in topology.addNode: it links the new node
\* id to each predecessor in turn and stops at the first error, leaving the
\* links made so far in place
RECURSIVE LinkPredecessors(_, _, _, _)
LinkPredecessors(os, ns, id, preds) ==
    IF preds = <<>> THEN [objs |-> os, err |-> "nil"]
    ELSE LET predecessorName == Head(preds)
             predecessor == getNode(os, ns, predecessorName)
         IN  IF os[id].name = predecessorName
                 THEN [objs |-> os, err |-> "InvalidTopology"]
             ELSE IF predecessor = 0
                 THEN [objs |-> os, err |-> "PredecessorNotFound"]
             ELSE IF os[predecessor].typ = Sink
                 THEN [objs |-> os, err |-> "InvalidTopology"]
             ELSE LinkPredecessors(
                     [os EXCEPT ![predecessor].successors = Append(@, id),
                                ![id].predecessors = Append(@, predecessor)],
                     ns, id, Tail(preds))

NewNode(name, typ) ==
    [name |-> name, typ |-> typ, successors |-> <<>>, predecessors |-> <<>>]

\* topology.addNode(name, typ, supplier, predecessors...).  The new Node
\* object is kept in objs only when something refers to it: the topology, or
\* a predecessor that was linked before a later predecessor failed.
addNode(name, typ, preds) ==
    LET id == Len(objs) + 1
        os == Append(objs, NewNode(name, typ))
        linked == LinkPredecessors(os, tnodes, id, preds)
        early == IF name = "" THEN "EmptyName"
                 ELSE IF getNode(objs, tnodes, name) # 0 THEN "InvalidTopology"
                 ELSE IF typ \in {Processor, Sink} /\ preds = <<>>
                     THEN "InvalidTopology"
                 ELSE "nil"
    IN  IF early # "nil"
            THEN /\ addErr' = early
                 /\ UNCHANGED <<objs, tnodes, troots, tstores>>
        ELSE IF linked.err # "nil"
            THEN /\ addErr' = linked.err
                 /\ objs' = IF linked.objs[id].predecessors = <<>>
                                THEN objs ELSE linked.objs
                 /\ UNCHANGED <<tnodes, troots, tstores>>
        ELSE /\ addErr' = "nil"
             /\ objs' = linked.objs
             /\ tnodes' = Append(tnodes, id)
             /\ troots' = IF typ = Source THEN Append(troots, id) ELSE troots
             /\ UNCHANGED tstores

\* validate looking at the first root only
validateFirstRoot ==
    IF troots # <<>> /\ objs[troots[1]].successors = <<>>
        THEN "InvalidTopology" ELSE "nil"

\* topology.validate: every root has a successor
validate == IF \E x \in 1..Len(troots) : objs[troots[x]].successors = <<>>
                THEN "InvalidTopology" ELSE "nil"

\* the names an add operation may give as predecessors: those of Names and
\* one that no node ever has
\* topology.addNode called on the topology top of a clone, whose nodes live
\* in top.objs: every node it adds is a new Node object
cloneAddNode(top, name, typ, preds) ==
    LET id == Len(top.objs) + 1
        os == Append(top.objs, NewNode(name, typ))
        linked == LinkPredecessors(os, top.nodes, id, preds)
    IN  IF name = "" THEN [top EXCEPT !.err = "EmptyName"]
        ELSE IF getNode(top.objs, top.nodes, name) # 0
            THEN [top EXCEPT !.err = "InvalidTopology"]
        ELSE IF typ \in {Processor, Sink} /\ preds = <<>>
            THEN [top EXCEPT !.err = "InvalidTopology"]
        ELSE IF linked.err # "nil"
            THEN [top EXCEPT !.err = linked.err, !.objs = linked.objs]
        ELSE [top EXCEPT !.objs = linked.objs,
                         !.nodes = Append(@, id),
                         !.roots = IF typ = Source THEN Append(@, id) ELSE @]

\* the loop of topology.clone over t.nodes from position i on
\* (topology.go:105-116)
RECURSIVE cloneFrom(_, _)
cloneFrom(i, top) ==
    IF i > Len(tnodes) THEN top
    ELSE LET node == objs[tnodes[i]]
             predecessors == [k \in 1..Len(node.predecessors) |->
                                 objs[node.predecessors[k]].name]
             next == cloneAddNode(top, node.name, node.typ, predecessors)
         IN  IF next.err # "nil" THEN next ELSE cloneFrom(i + 1, next)

\* no clone was made
NoClone == [done |-> FALSE, objs |-> <<>>, nodes |-> <<>>, roots |-> <<>>,
            stores |-> {}, err |-> "nil"]

\* topology.clone: top = &topology{}; top.stores = t.stores; the nodes of
\* t.nodes are added to top in their order.  top.stores refers to nodes of
\* the original, top.nodes and top.roots to nodes of top.objs.
clone ==
    cloneFrom(1, [done |-> TRUE, objs |-> <<>>, nodes |-> <<>>,
                  roots |-> <<>>, stores |-> tstores, err |-> "nil"])

PredNames == Names \cup {"c"}

PredLists == UNION {[1..n -> PredNames] : n \in 0..MaxPreds}

(***************************************************************************)
(* sync.RWMutex as the task list uses it (src/task.go:34-37).  w: a writer *)
(* holds the mutex; readers: goroutines that hold or wait for the read     *)
(* lock; readerWait: readers the writer still waits for.                   *)
(***************************************************************************)
NewMutex == [w |-> FALSE, readers |-> 0, readerWait |-> 0]

\* st.Lock() can return: no writer holds the mutex and no reader is active
CanLock(mu) == ~mu.w /\ mu.readers = 0

Lock(mu) == [mu EXCEPT !.w = TRUE]

\* st.RUnlock() called by the goroutine that holds the write lock (the
\* deferred call of setScale).  With no reader waiting, the reader count
\* drops below the writer's mark and the runtime stops the process with
\* "fatal error: sync: RUnlock of unlocked RWMutex"; with a reader waiting
\* in RLock the call returns and the write lock stays held.
RUnlockFatal(mu) == mu.readers = 0

RUnlock(mu) == [mu EXCEPT !.readers = @ - 1,
                          !.readerWait = IF mu.w THEN @ - 1 ELSE @]

(***************************************************************************)
(* Task layer (src/task.go).                                               *)
(***************************************************************************)
\* DefaultInitialScale and DefaultBufferSize (builder.go:23, 28)
DefaultInitialScale == 1
DefaultBufferSize == 1024

\* the configuration items of a node: Config{nil} where the path is not set
NoEntry == [count |-> <<>>, buffer_size |-> <<>>]

ConfigEntries ==
    {[count |-> c, buffer_size |-> b] :
        c \in {<<>>} \cup {<<k>> : k \in 0..MaxCount},
        b \in {<<>>} \cup {<<k>> : k \in 0..MaxBufferSize}}

\* Config.Int(def): the default for a nil item (config.go:148-158)
ConfigInt(c, def) == IF c = <<>> THEN def ELSE c[1]

\* task := make(chan Record, bufferSize) and the goroutine started for it
\* (task.go:86-92)
NewTask(bufferSize) ==
    [q |-> <<>>, cap |-> bufferSize, closed |-> FALSE, worker |-> "ranging"]

NewTasks == [buffers |-> <<>>, mu |-> NewMutex]

\* nt[node]: indexing a nil map, or a map without the key, yields nil
TasksOf(n) == tasksMap[n]

\* processorContext.IsActive
IsActive(n) == ctxOf[n].active > 0

Idle == [at |-> "idle", i |-> 0, n |-> 0, scale |-> 0, from |-> "none"]
At(where, i) == [at |-> where, i |-> i, n |-> 0, scale |-> 0, from |-> "none"]

\* the first lines of nodeTasks.setScale (task.go:73-78): st := nt[node];
\* st.Lock().  Called by the client goroutine at pc, which resumes at
\* <<from, i>> when setScale returns.  A nil st faults in st.Lock().
setScaleEnter(n, scale, from, i) ==
    IF TasksOf(n) = NIL
        THEN /\ crashed' = "panic"
             /\ pc' = Idle
             /\ UNCHANGED tasksMap
    ELSE /\ CanLock(TasksOf(n).mu)
         /\ tasksMap' = [tasksMap EXCEPT ![n].mu = Lock(@)]
         /\ pc' = [at |-> "setScale", i |-> i, n |-> n, scale |-> scale,
                   from |-> from]
         /\ UNCHANGED crashed

\* one step of the body of nodeTasks.setScale (task.go:80-101) and, when the
\* loops are done, its deferred st.RUnlock() (task.go:76)
SetScaleStep ==
    /\ crashed = "no"
    /\ pc.at = "setScale"
    /\ LET st == tasksMap[pc.n]
           currScale == Len(st.buffers)
       IN  IF pc.scale > currScale
               THEN /\ tasksMap' = [tasksMap EXCEPT ![pc.n].buffers =
                          Append(@, NewTask(ConfigInt(
                              config[objs[pc.n].name].buffer_size, 0)))]
                    /\ UNCHANGED <<pc, crashed>>
           ELSE IF pc.scale < currScale
               THEN /\ tasksMap' = [tasksMap EXCEPT ![pc.n].buffers =
                          SubSeq(@, 1, currScale - 1)]
                    /\ UNCHANGED <<pc, crashed>>
           ELSE IF RUnlockFatal(st.mu)
               THEN /\ crashed' = "fatal"
                    /\ UNCHANGED <<pc, tasksMap>>
           ELSE /\ tasksMap' = [tasksMap EXCEPT ![pc.n].mu = RUnlock(@)]
                /\ pc' = At(pc.from, pc.i)
                /\ UNCHANGED crashed
    /\ UNCHANGED <<topoVars, config, ctxOf, procOf, initCalls, consume, startRet,
                   closeVars, call, userVars>>

(***************************************************************************)
(* Building the topology and the stream.                                   *)
(***************************************************************************)
\* topology.addSource / addStore (no predecessors) and addProcessor / addSink
AddNode ==
    /\ crashed = "no"
    /\ pc.at = "build"
    /\ Len(objs) < MaxNodes
    /\ \E name \in Names \cup {""}, typ \in Types, preds \in PredLists :
          /\ typ \in {Source, Store} => preds = <<>>
          /\ addNode(name, typ, preds)
          /\ addCall' = [op |-> "add", name |-> name, typ |-> typ,
                         preds |-> preds]
    /\ UNCHANGED <<config, pc, runVars, crashed, startRet, closeVars, call,
                   userVars, cloned>>

\* topology.validate, which the client may or may not call
Validate ==
    /\ crashed = "no"
    /\ pc.at = "build"
    /\ addErr' = validate
    /\ addCall' = [op |-> "validate", name |-> "", typ |-> "", preds |-> <<>>]
    /\ UNCHANGED <<objs, tnodes, troots, tstores, config, pc, runVars,
                   crashed, startRet, closeVars, call, userVars, cloned>>

\* topology.clone called by the client
Clone ==
    /\ crashed = "no"
    /\ pc.at = "build"
    /\ cloned' = clone
    /\ UNCHANGED <<objs, tnodes, troots, tstores, addErr, addCall, config,
                   pc, runVars, crashed, startRet, closeVars, call, userVars>>

\* the topology is handed to a Stream; it is read-only from here on, and
\* the record of the builder's last call is dropped
Build ==
    /\ crashed = "no"
    /\ pc.at = "build"
    /\ pc' = Idle
    /\ addCall' = NoAdd
    /\ addErr' = "nil"
    /\ cloned' = NoClone
    /\ UNCHANGED <<objs, tnodes, troots, tstores, config, runVars, crashed,
                   startRet, closeVars, call, userVars>>

(***************************************************************************)
(* Stream.Start (src/stream.go:321-358).                                   *)
(***************************************************************************)
\* s.initTasks() begins: s.tasks = make(nodeTasks)
StartCall ==
    /\ crashed = "no"
    /\ pc.at = "idle"
    /\ startRet = "none"
    /\ pc' = At("initTasks", 1)
    /\ tasksMap' = [n \in Ids |-> NIL]
    /\ UNCHANGED <<topoVars, config, ctxOf, procOf, initCalls, consume, crashed,
                   startRet, closeVars, call, userVars>>

\* one iteration of the loop of Stream.initTasks (stream.go:445-453).  The
\* configuration is read-only input: the items of a node are drawn when
\* initTasks reads them, the only time the program does.
InitTasksStep ==
    /\ crashed = "no"
    /\ pc.at = "initTasks"
    /\ IF pc.i > Len(tnodes)
           THEN /\ pc' = At("initStores", 0)
                /\ UNCHANGED <<tasksMap, config, crashed>>
       ELSE LET n == tnodes[pc.i] IN
           IF objs[n].successors = <<>> \/ objs[n].typ = Sink
               THEN /\ pc' = At("initTasks", pc.i + 1)
                    /\ UNCHANGED <<tasksMap, config, crashed>>
           ELSE \* t := &tasks{}; s.tasks[node] = t;
                \* scale := s.config.Get(node.name, "tasks", "count").Int(0);
                \* s.tasks.setScale(s.config, node, scale)
                \E entry \in ConfigEntries :
                   /\ config' = [config EXCEPT ![objs[n].name] = entry]
                   /\ tasksMap' = [tasksMap EXCEPT ![n] =
                                      [NewTasks EXCEPT !.mu = Lock(@)]]
                   /\ pc' = [at |-> "setScale", i |-> pc.i + 1, n |-> n,
                             scale |-> ConfigInt(entry.count, 0),
                             from |-> "initTasks"]
                   /\ UNCHANGED crashed
    /\ UNCHANGED <<topoVars, ctxOf, procOf, initCalls, consume, startRet,
                   closeVars, call, userVars>>

\* the stores as the ids of the Store nodes of topology.nodes
StoreIdsOfNodes ==
    {tnodes[i] : i \in {j \in 1..Len(tnodes) : objs[tnodes[j]].typ = Store}}

\* ids of the nodes in topology.stores
StoreIds == {p[2] : p \in tstores}

\* Node.init(ctx) (src/node.go:77-104) with ctx := newContext(s): binds a
\* fresh context and a fresh instance from the supplier; closer says whether
\* the instance implements Closer
nodeInit(n, closer) ==
    /\ ctxOf' = [ctxOf EXCEPT ![n] = [active |-> 0]]
    /\ procOf' = [procOf EXCEPT ![n] = [closer |-> closer]]
    /\ initCalls' = [initCalls EXCEPT ![n] = @ + 1]

\* the loop over s.topology.stores in Stream.Start (stream.go:328-333), one
\* store per step in the map's order; when none is left, the loop over
\* s.topology.nodes begins
StartInitStore ==
    /\ crashed = "no"
    /\ pc.at = "initStores"
    /\ LET left == {n \in StoreIds : ctxOf[n] = NIL} IN
       IF left = {}
           THEN /\ pc' = At("initNodes", 1)
                /\ UNCHANGED <<ctxOf, procOf, initCalls, startRet>>
       ELSE \E n \in left, closer \in BOOLEAN, err \in {"nil", "err"} :
                /\ nodeInit(n, closer)
                /\ IF err = "nil" THEN UNCHANGED <<pc, startRet>>
                   ELSE pc' = Idle /\ startRet' = "err"
    /\ UNCHANGED <<topoVars, config, tasksMap, consume, crashed, closeVars,
                   call, userVars>>

\* one iteration of the loop over s.topology.nodes (stream.go:335-344)
StartInitNode ==
    /\ crashed = "no"
    /\ pc.at = "initNodes"
    /\ IF pc.i > Len(tnodes)
           THEN /\ pc' = At("initRoots", 1)
                /\ UNCHANGED <<ctxOf, procOf, initCalls, startRet>>
       ELSE IF objs[tnodes[pc.i]].typ = Source
           THEN /\ pc' = At("initNodes", pc.i + 1)
                /\ UNCHANGED <<ctxOf, procOf, initCalls, startRet>>
       ELSE \E closer \in BOOLEAN, err \in {"nil", "err"} :
                /\ nodeInit(tnodes[pc.i], closer)
                /\ IF err = "nil"
                       THEN pc' = At("initNodes", pc.i + 1)
                            /\ UNCHANGED startRet
                   ELSE pc' = Idle /\ startRet' = "err"
    /\ UNCHANGED <<topoVars, config, tasksMap, consume, crashed, closeVars,
                   call, userVars>>

\* one iteration of the loop over s.topology.roots (stream.go:346-355): init,
\* node.context.activate(), go Consume(ctx); after the loop Start returns nil
StartRoot ==
    /\ crashed = "no"
    /\ pc.at = "initRoots"
    /\ IF pc.i > Len(troots)
           THEN /\ pc' = Idle
                /\ startRet' = "nil"
                /\ UNCHANGED <<ctxOf, procOf, initCalls, consume>>
       ELSE LET n == troots[pc.i] IN
            \E closer \in BOOLEAN, err \in {"nil", "err"} :
                /\ procOf' = [procOf EXCEPT ![n] = [closer |-> closer]]
                /\ initCalls' = [initCalls EXCEPT ![n] = @ + 1]
                /\ IF err = "nil"
                       THEN /\ ctxOf' = [ctxOf EXCEPT ![n] = [active |-> 1]]
                            /\ consume' = [consume EXCEPT ![n] = "running"]
                            /\ pc' = At("initRoots", pc.i + 1)
                            /\ UNCHANGED startRet
                   ELSE /\ ctxOf' = [ctxOf EXCEPT ![n] = [active |-> 0]]
                        /\ pc' = Idle
                        /\ startRet' = "err"
                        /\ UNCHANGED consume
    /\ UNCHANGED <<topoVars, config, tasksMap, crashed, closeVars, call, userVars>>

(***************************************************************************)
(* User code on a context (src/context.go).                                *)
(***************************************************************************)
\* the gate of Forward without its test of the successors and of the type
ForwardRefusedInactiveOnly(n) == ~IsActive(n)

\* the condition under which processorContext.Forward refuses (context.go:65)
ForwardRefused(n) ==
    ~IsActive(n) \/ (Len(objs[n].successors) = 0 \/ objs[n].typ = Sink)

\* processorContext.Forward(record) on the context of node n, up to the
\* point where nodeTasks.forwardFrom has its task list: a nil st faults in
\* st.RLock() (task.go:42-45)
Forward ==
    /\ crashed = "no"
    /\ \E n \in 1..Len(objs) :
          /\ ctxOf[n] # NIL
          /\ IF ForwardRefused(n)
                 THEN /\ call' = [op |-> "Forward", node |-> n, arg |-> "",
                                  records |-> <<"r">>, handled |-> <<>>,
                                  res |-> "InvalidForward"]
                      /\ UNCHANGED crashed
             ELSE IF TasksOf(n) = NIL
                 THEN /\ call' = [op |-> "Forward", node |-> n, arg |-> "",
                                  records |-> <<"r">>, handled |-> <<>>,
                                  res |-> "fault"]
                      /\ crashed' = "panic"
             ELSE /\ call' = [op |-> "Forward", node |-> n, arg |-> "",
                                  records |-> <<"r">>, handled |-> <<>>,
                              res |-> "forwardFrom"]
                  /\ UNCHANGED crashed
    /\ UNCHANGED <<topoVars, config, pc, runVars, startRet, closeVars,
                   userVars>>

\* the nodes nodeTasks.forwardTo ranges over: the keys of the task map
TaskNodes == {m \in 1..Len(objs) : tasksMap[m] # NIL}

\* processorContext.ForwardTo(to, record) on the context of node n, up to
\* the point where nodeTasks.forwardTo has found its target (task.go:58-70)
ForwardTo ==
    /\ crashed = "no"
    /\ \E n \in 1..Len(objs), to \in Names :
          /\ ctxOf[n] # NIL
          /\ call' = [op |-> "ForwardTo", node |-> n, arg |-> to,
                      records |-> <<"r">>, handled |-> <<>>,
                      res |-> IF ~IsActive(n) THEN "InvalidForward"
                              ELSE IF \E m \in TaskNodes : objs[m].name = to
                                  THEN "process"
                              ELSE "NodeNotFound"]
    /\ UNCHANGED <<topoVars, config, pc, runVars, crashed, startRet,
                   closeVars, userVars>>

\* processorContext.Store(name) on the context of node n (context.go:45-52):
\* a lookup in the map topology.stores
ContextStore ==
    /\ crashed = "no"
    /\ \E n \in 1..Len(objs), name \in Names :
          /\ ctxOf[n] # NIL
          /\ call' = [op |-> "Store", node |-> n, arg |-> name,
                      records |-> <<>>, handled |-> <<>>,
                      res |-> IF \E p \in tstores : p[1] = name
                                  THEN "store" ELSE "StoreNotFound"]
    /\ UNCHANGED <<topoVars, config, pc, runVars, crashed, startRet,
                   closeVars, userVars>>

\* the error and the records user code passes to processorContext.Error
ErrorArgs == {[err |-> "e1", records |-> <<>>],
              [err |-> "e2", records |-> <<"r">>]}

\* processorContext.Error with the handler invoked whether or not one is set
ErrorDeliversAlways == TRUE

\* the test of processorContext.Error (context.go:56): pc.stream.handler != nil
ErrorDelivers == handler

\* processorContext.Error(err, records...) on the context of node n
\* (context.go:55-59): pc.stream.handler(Error{pc.node, err, records})
Error ==
    /\ crashed = "no"
    /\ \E n \in 1..Len(objs), a \in ErrorArgs :
          /\ ctxOf[n] # NIL
          /\ call' = [op |-> "Error", node |-> n, arg |-> a.err,
                      records |-> a.records, res |-> "none",
                      handled |-> IF ErrorDelivers
                                     THEN <<[node |-> n, err |-> a.err,
                                             records |-> a.records]>>
                                 ELSE <<>>]
    /\ UNCHANGED <<topoVars, config, pc, runVars, crashed, startRet,
                   closeVars, userVars>>

\* Source.Consume returns; nothing deactivates the source's context
ConsumeReturn ==
    /\ crashed = "no"
    /\ \E n \in 1..Len(objs) :
          /\ consume[n] = "running"
          /\ consume' = [consume EXCEPT ![n] = "returned"]
    /\ UNCHANGED <<topoVars, config, pc, tasksMap, ctxOf, procOf, initCalls, crashed,
                   startRet, closeVars, call, userVars>>

(***************************************************************************)
(* Stream.Close (src/stream.go:364-428).                                   *)
(***************************************************************************)
\* node.processor.(Closer): false for a nil processor
IsCloser(n) == procOf[n] # NIL /\ procOf[n].closer

CloseCall ==
    /\ crashed = "no"
    /\ pc.at = "idle"
    /\ nCloses < MaxCloses
    /\ nCloses' = nCloses + 1
    /\ pc' = At("closeRoots", 1)
    /\ closeRet' = "none"
    /\ closerErr' = FALSE
    /\ closeCalls' = [n \in Ids |-> 0]
    /\ closeInst' = {n \in 1..Len(objs) : IsCloser(n)}
    /\ UNCHANGED <<topoVars, config, runVars, crashed, startRet, call, userVars>>

\* one iteration of the loop over s.topology.roots (stream.go:366-375):
\* closer.Close(), then s.tasks.setScale(s.config, node, 0)
CloseRoot ==
    /\ crashed = "no"
    /\ pc.at = "closeRoots"
    /\ IF pc.i > Len(troots)
           THEN /\ pc' = At("closeProcs", 1)
                /\ UNCHANGED <<tasksMap, crashed, closeRet, closeCalls,
                               closerErr>>
       ELSE LET n == troots[pc.i] IN
            \E err \in {"nil", "err"} :
               IF IsCloser(n) /\ err = "err"
                   THEN /\ closeCalls' = [closeCalls EXCEPT ![n] = @ + 1]
                        /\ closerErr' = TRUE
                        /\ closeRet' = "err"
                        /\ pc' = Idle
                        /\ UNCHANGED <<tasksMap, crashed>>
               ELSE /\ closeCalls' = [closeCalls EXCEPT ![n] =
                                         IF IsCloser(n) THEN @ + 1 ELSE @]
                    /\ setScaleEnter(n, 0, "closeRoots", pc.i + 1)
                    /\ UNCHANGED <<closeRet, closerErr>>
    /\ UNCHANGED <<topoVars, config, ctxOf, procOf, initCalls, consume, startRet,
                   nCloses, closeInst, call, userVars>>

\* one iteration of the loop over the Processor nodes (stream.go:378-397).
\* For a Closer the client enters the loop of lines 384-392 (CloseSpin);
\* otherwise it scales the node's tasks to 0.
CloseProc ==
    /\ crashed = "no"
    /\ pc.at = "closeProcs"
    /\ IF pc.i > Len(tnodes)
           THEN /\ pc' = At("closeSinks", 1)
                /\ UNCHANGED <<tasksMap, crashed>>
       ELSE LET n == tnodes[pc.i] IN
            IF objs[n].typ # Processor
                THEN /\ pc' = At("closeProcs", pc.i + 1)
                     /\ UNCHANGED <<tasksMap, crashed>>
            ELSE IF IsCloser(n)
                THEN /\ pc' = [at |-> "spin", i |-> pc.i, n |-> n, scale |-> 0,
                               from |-> "closeProcs"]
                     /\ UNCHANGED <<tasksMap, crashed>>
            ELSE setScaleEnter(n, 0, "closeProcs", pc.i + 1)
    /\ UNCHANGED <<topoVars, config, ctxOf, procOf, initCalls, consume, startRet,
                   closeVars, call, userVars>>

\* one iteration of the loop over the Sink nodes (stream.go:400-416)
CloseSink ==
    /\ crashed = "no"
    /\ pc.at = "closeSinks"
    /\ IF pc.i > Len(tnodes)
           THEN pc' = At("closeStores", 0)
       ELSE LET n == tnodes[pc.i] IN
            IF objs[n].typ = Sink /\ IsCloser(n)
                THEN pc' = [at |-> "spin", i |-> pc.i, n |-> n, scale |-> 0,
                            from |-> "closeSinks"]
            ELSE pc' = At("closeSinks", pc.i + 1)
    /\ UNCHANGED <<topoVars, config, runVars, crashed, startRet, closeVars,
                   call, userVars>>

\* one pass of the loop "for { if IsActive { Gosched; continue }; if err =
\* closer.Close(); err != nil { return err } }" (stream.go:384-392 and
\* 406-414): a Close() that returns nil is followed by the next pass
CloseSpin ==
    /\ crashed = "no"
    /\ pc.at = "spin"
    /\ IF IsActive(pc.n)
           THEN UNCHANGED <<pc, closeRet, closeCalls, closerErr>>
       ELSE \E err \in {"nil", "err"} :
               /\ closeCalls' = [closeCalls EXCEPT ![pc.n] = @ + 1]
               /\ IF err = "nil" THEN UNCHANGED <<pc, closeRet, closerErr>>
                  ELSE /\ closerErr' = TRUE
                       /\ closeRet' = "err"
                       /\ pc' = Idle
    /\ UNCHANGED <<topoVars, config, runVars, crashed, startRet, nCloses,
                   closeInst, call, userVars>>

\* the loop over s.topology.stores (stream.go:419-425) and the return: the
\* stores in done are closed, in the map's order, and the last of them
\* fails unless all were closed
CloseStores ==
    /\ crashed = "no"
    /\ pc.at = "closeStores"
    /\ LET closers == {n \in StoreIds : IsCloser(n)} IN
       \E done \in SUBSET closers, err \in {"nil", "err"} :
          /\ err = "nil" => done = closers
          /\ err = "err" => done # {}
          /\ closeCalls' = [n \in Ids |->
                               IF n \in done THEN closeCalls[n] + 1
                               ELSE closeCalls[n]]
          /\ closerErr' = (err = "err")
          /\ closeRet' = err
    /\ pc' = Idle
    /\ UNCHANGED <<topoVars, config, runVars, crashed, startRet, nCloses,
                   closeInst, call, userVars>>

(***************************************************************************)
(* The program.                                                            *)
(***************************************************************************)
Init ==
    /\ objs = <<>>
    /\ tnodes = <<>>
    /\ troots = <<>>
    /\ tstores = {}
    /\ addErr = "nil"
    /\ config = [name \in Names |-> NoEntry]
    /\ pc = At("build", 0)
    /\ tasksMap = [n \in Ids |-> NIL]
    /\ ctxOf = [n \in Ids |-> NIL]
    /\ procOf = [n \in Ids |-> NIL]
    /\ consume = [n \in Ids |-> "none"]
    /\ crashed = "no"
    /\ startRet = "none"
    /\ closeRet = "none"
    /\ nCloses = 0
    /\ closeCalls = [n \in Ids |-> 0]
    /\ closerErr = FALSE
    /\ closeInst = {}
    /\ call = NoCall
    /\ initCalls = [n \in Ids |-> 0]
    /\ addCall = NoAdd
    /\ handler \in BOOLEAN
    /\ cloned = NoClone
    /\ records = <<>>
    /\ sources = <<>>
    /\ closed = FALSE
    /\ contexts = <<>>
    /\ heap = <<>>
    /\ ret = NoRet
    /\ scaled = [up |-> FALSE, down |-> FALSE]
    /\ db = NoDB
    /\ hist = <<>>
    /\ rng = NoRange
    /\ conf = NewConfig
    /\ setLog = <<>>

Next ==
    \/ AddNode
    \/ Validate
    \/ Clone
    \/ Build
    \/ StartCall
    \/ InitTasksStep
    \/ SetScaleStep
    \/ StartInitStore
    \/ StartInitNode
    \/ StartRoot
    \/ Forward
    \/ ForwardTo
    \/ ContextStore
    \/ Error
    \/ ConsumeReturn
    \/ CloseCall
    \/ CloseRoot
    \/ CloseProc
    \/ CloseSink
    \/ CloseStores

Spec == Init /\ [][Next]_vars

(***************************************************************************)
(* Records (src/unnamed/part_004, the Record whose id nodeTasks.forwardFrom *)
(* hashes; src/unnamed/part_002 has the same NewRecord).                   *)
(***************************************************************************)
\* the byte strings an Encoder may encode to
Bytes == UNION {[1..n -> 0..1] : n \in 0..MaxBytes}

\* a key or value argument: <<>> for a nil Encoder, <<b>> for an Encoder
\* that encodes to the bytes b
Encoders == {<<>>} \cup {<<b>> : b \in Bytes}

\* wyhash.Hash(b, 0), a function of the bytes alone: here a polynomial hash,
\* kept to 16 bits
RECURSIVE Hash(_, _)
Hash(b, seed) ==
    IF b = <<>> THEN (seed + 40503) % 65536
    ELSE Hash(Tail(b), (seed * 31 + Head(b) + 7) % 65536)

\* NewRecord with the id computed over the value when there is one, as
\* src/unnamed/part_003 computes it
NewRecordOverValue(topic, key, value, ts, ack) ==
    [id |-> IF value # <<>> THEN Hash(value[1], 0) ELSE 0,
     Topic |-> topic, Key |-> key, Value |-> value, Time |-> ts, ack |-> ack]

\* NewRecord(topic, key, value, ts, ack) (src/unnamed/part_004:36-53)
NewRecord(topic, key, value, ts, ack) ==
    [id |-> IF key # <<>> THEN Hash(key[1], 0)
            ELSE IF value # <<>> THEN Hash(value[1], 0)
            ELSE 0,
     Topic |-> topic, Key |-> key, Value |-> value, Time |-> ts, ack |-> ack]

\* user code makes a Record
NewRecordCall ==
    /\ Len(records) < MaxRecords
    /\ \E topic \in {"", "t"}, key \in Encoders, value \in Encoders,
          ts \in 0..1, ack \in {"nil", "ack"} :
          records' = Append(records, NewRecord(topic, key, value, ts, ack))
    /\ UNCHANGED <<topoVars, config, pc, runVars, crashed, startRet,
                   closeVars, call, handler, childVars, storeVars,
                   confVars>>

SpecRecord == Init /\ [][NewRecordCall]_vars

(***************************************************************************)
(* The child-context design (src/stream.go:58-227, src/builder.go and the  *)
(* Context of src/unnamed/part_000): the Stream keeps one Context per      *)
(* source, every Context has child Contexts whose goroutines take the      *)
(* source's records from its buffer, and Stream.Scale changes the number   *)
(* of children.  Every method of the Stream runs under Stream.mtx and      *)
(* waits for nothing but a closed channel and a timer, so a call is one    *)
(* step; the source goroutines and the child goroutines run in between.    *)
(***************************************************************************)
taskVars == <<topoVars, runVars, closeVars, config, pc, crashed, startRet,
              call, handler, records, storeVars, confVars>>

\* Builder.Build has returned a Stream
Built == /\ ret.op \notin {"none", "AddSource"}
         /\ ~(ret.op = "Build" /\ ret.res # "nil")

\* a panic ends the program
Running == Built /\ ret.res # "panic"

\* a call of the client: its arguments, the Starter or Closer that fails
\* during it (0: none), what it returned
Return(op, name, scale, fail, res, infos) ==
    [op |-> op, name |-> name, scale |-> scale, fail |-> fail, res |-> res,
     infos |-> infos]

\* the Context Stream.Start makes for a source: no buffer, no children;
\* processed: a child has run the downstream processors on a record;
\* pending: records of the buffer that were in it when Context.close ended
NewContext(name) ==
    [name |-> name, childrens |-> 0, cap |-> 0, buffer |-> 0, done |-> FALSE,
     alive |-> 0, source |-> "none", processed |-> FALSE, pending |-> 0]

\* child goroutines of c whose donech is closed and that have not returned
Leaving(c) == c.alive - (IF c.done THEN 0 ELSE c.childrens)

\* Context.scale: addChild appends a child and starts its goroutine; a
\* removed child has its donech closed and leaves the list, its goroutine
\* returns when it next selects
scale(c, n) == IF n > c.childrens
               THEN [c EXCEPT !.childrens = n, !.alive = @ + (n - c.childrens)]
               ELSE [c EXCEPT !.childrens = n]

\* a Scale call that panics whenever it removes a child
scalePanicsOnShrink(c, n) == n < c.childrens

\* Context.scale closes the donech of the children it removes: a panic when
\* Context.close has closed them before
scalePanics(c, n) == c.done /\ n < c.childrens

\* Context.start: the buffer, the configured children, the source goroutine
start(c, bufferSize, n) ==
    [scale([c EXCEPT !.cap = bufferSize], n) EXCEPT !.source = "running"]

\* Context.close: closes donech; when the buffer holds records it waits
\* closeTimeout, and the children, still open, take d of the records during
\* the wait; then it closes the donech of every child.  The children stay
\* in the list.  pending: the records the buffer holds when the wait ends.
close(c, d) == [c EXCEPT !.done = TRUE, !.buffer = @ - d,
                         !.pending = c.buffer - d,
                         !.processed = @ \/ d > 0]

\* the records the children of each Context take while Stream.Close waits
\* in its Context.close: none where the buffer is empty, no child runs or
\* the context is not closed
Drains(h, closing) ==
    {d \in [1..Len(h) -> 0..MaxQueued] :
        \A i \in 1..Len(h) :
            /\ d[i] <= h[i].buffer
            /\ (h[i].alive = 0 \/ i \notin closing) => d[i] = 0}

\* Builder.AddSource -> Builder.AddNode: a name already in the topology is
\* errInvalidDag
BuilderAddSource ==
    /\ ~Built
    /\ \E name \in Names :
         IF \E k \in 1..Len(sources) : sources[k] = name
         THEN /\ ret' = Return("AddSource", name, 0, 0, "InvalidDag", <<>>)
              /\ UNCHANGED sources
         ELSE /\ ret' = Return("AddSource", name, 0, 0, "nil", <<>>)
              /\ sources' = Append(sources, name)
    /\ UNCHANGED <<closed, contexts, heap, scaled, taskVars>>

\* Builder.Build: errInvalidDag for an empty topology
BuilderBuild ==
    /\ ~Built
    /\ ret' = Return("Build", "", 0, 0,
                     IF sources = <<>> THEN "InvalidDag" ELSE "nil", <<>>)
    /\ UNCHANGED <<sources, closed, contexts, heap, scaled, taskVars>>

\* Stream.Start.  fail = 0: no Starter returns an error; fail = i up to
\* Len(sources): the Starter of the i-th source does, after the contexts of
\* the sources before it have started; fail = Len(sources) + 1: a Starter
\* of a store or of a processor does, before any context is made.  A source
\* gets the Scale and BufferSize AddSource gave it.
StreamStart ==
    /\ Running
    /\ Len(heap) + Len(sources) <= MaxContexts
    /\ \E fail \in 0..(Len(sources) + 1) :
         IF closed
         THEN /\ ret' = Return("Start", "", 0, fail, "StreamClosed", <<>>)
              /\ UNCHANGED <<contexts, heap>>
         ELSE LET n == IF fail = 0 THEN Len(sources)
                       ELSE IF fail > Len(sources) THEN 0
                       ELSE fail - 1
                  made == [k \in 1..n |->
                             start(NewContext(sources[k]), DefaultBufferSize,
                                   DefaultInitialScale)]
              IN /\ heap' = heap \o made
                 /\ contexts' = contexts \o [k \in 1..n |-> Len(heap) + k]
                 /\ ret' = Return("Start", "", 0, fail,
                                  IF fail = 0 THEN "nil" ELSE "err", <<>>)
    /\ UNCHANGED <<sources, closed, scaled, taskVars>>

\* the body of Stream.Close.  fail = 0: no Closer returns an error; fail = i
\* up to Len(contexts): the Closer of the i-th context's source does, after
\* the contexts before it are closed; fail = Len(contexts) + 1: a Closer of
\* the later loops does, after every context is closed.
closeResult(fail) == IF closed THEN "StreamClosed"
                     ELSE IF fail = 0 THEN "nil" ELSE "err"

closesContext(k, fail) == fail = 0 \/ k < fail

closePanics(fail) ==
    /\ ~closed
    /\ \E k \in 1..Len(contexts) : closesContext(k, fail) /\ heap[contexts[k]].done

\* the Contexts the loop over s.contexts of Stream.Close closes
closing(fail) ==
    {contexts[k] : k \in {x \in 1..Len(contexts) : closesContext(x, fail)}}

\* the Contexts after the loop over s.contexts of Stream.Close
closeContexts(h, fail, d) ==
    [i \in 1..Len(h) |->
        IF i \in closing(fail) THEN close(h[i], d[i]) ELSE h[i]]

doClose(h, fail) ==
    IF closed \/ closePanics(fail)
    THEN /\ heap' = h
         /\ UNCHANGED <<closed, contexts>>
    ELSE /\ closed' = TRUE
         /\ \E d \in Drains(h, closing(fail)) :
                heap' = closeContexts(h, fail, d)
         /\ contexts' = IF fail = 0 THEN <<>> ELSE contexts

\* Stream.Close
StreamClose ==
    /\ Running
    /\ \E fail \in 0..(Len(contexts) + 1) :
         /\ doClose(heap, fail)
         /\ ret' = Return("Close", "", 0, fail,
                          IF closePanics(fail) THEN "panic"
                          ELSE closeResult(fail), <<>>)
    /\ UNCHANGED <<sources, scaled, taskVars>>

\* Stream.Contexts
ContextInfo(c) == [Name |-> c.name, Scale |-> c.childrens + 1,
                   BufferSize |-> c.cap]

Contexts ==
    /\ Running
    /\ ret' = IF closed
              THEN Return("Contexts", "", 0, 0, "StreamClosed", <<>>)
              ELSE Return("Contexts", "", 0, 0, "nil",
                          [k \in 1..Len(contexts) |->
                             ContextInfo(heap[contexts[k]])])
    /\ UNCHANGED <<sources, closed, contexts, heap, scaled, taskVars>>

\* the first context of Stream.contexts with the given name, 0 for none
RECURSIVE FindContext(_, _)
FindContext(name, k) ==
    IF k > Len(contexts) THEN 0
    ELSE IF heap[contexts[k]].name = name THEN contexts[k]
    ELSE FindContext(name, k + 1)

\* Stream.Scale
Scale ==
    /\ Running
    /\ \E name \in Names, n \in 0..MaxScale :
         LET i == FindContext(name, 1) IN
         IF closed
         THEN /\ ret' = Return("Scale", name, n, 0, "StreamClosed", <<>>)
              /\ UNCHANGED <<heap, scaled>>
         ELSE IF n < 1
         THEN /\ ret' = Return("Scale", name, n, 0, "InvalidScale", <<>>)
              /\ UNCHANGED <<heap, scaled>>
         ELSE IF i = 0
         THEN /\ ret' = Return("Scale", name, n, 0, "TaskNotFound", <<>>)
              /\ UNCHANGED <<heap, scaled>>
         ELSE IF scalePanics(heap[i], n)
         THEN /\ ret' = Return("Scale", name, n, 0, "panic", <<>>)
              /\ UNCHANGED <<heap, scaled>>
         ELSE /\ scale(heap[i], n).alive <= MaxAlive
              /\ heap' = [heap EXCEPT ![i] = scale(heap[i], n)]
              /\ scaled' = [up |-> scaled.up \/ n > heap[i].childrens,
                            down |-> scaled.down \/ n < heap[i].childrens]
              /\ ret' = Return("Scale", name, n, 0, "nil", <<>>)
    /\ UNCHANGED <<sources, closed, contexts, taskVars>>

\* a source's Process calls Context.Forward: with children the record goes
\* into the buffer (a full buffer blocks the source), without children the
\* source runs the downstream processors itself
SourceForward ==
    /\ Running
    /\ \E i \in 1..Len(heap) :
         /\ heap[i].source = "running"
         /\ IF heap[i].childrens > 0
            THEN /\ heap[i].buffer < heap[i].cap
                 /\ heap[i].buffer < MaxQueued
                 /\ heap' = [heap EXCEPT ![i].buffer = @ + 1]
            ELSE UNCHANGED heap
    /\ UNCHANGED <<sources, closed, contexts, ret, scaled, taskVars>>

\* a source's Process returns nil: its goroutine ends
SourceReturn ==
    /\ Running
    /\ \E i \in 1..Len(heap) :
         /\ heap[i].source = "running"
         /\ heap' = [heap EXCEPT ![i].source = "returned"]
    /\ UNCHANGED <<sources, closed, contexts, ret, scaled, taskVars>>

\* a source's Process returns an error: its goroutine calls Stream.Close
\* and logs what it returns
SourceFail ==
    /\ Running
    /\ \E i \in 1..Len(heap), fail \in 0..(Len(contexts) + 1) :
         /\ heap[i].source = "running"
         /\ doClose([heap EXCEPT ![i].source = "returned"], fail)
         /\ ret' = IF closePanics(fail) THEN [ret EXCEPT !.res = "panic"]
                   ELSE ret
    /\ UNCHANGED <<sources, scaled, taskVars>>

\* a child goroutine's select takes a record from the buffer of its parent
\* and runs the downstream processors; a child whose donech is closed may
\* still take this case
ChildProcess ==
    /\ Running
    /\ \E i \in 1..Len(heap) :
         /\ heap[i].alive > 0
         /\ heap[i].buffer > 0
         /\ heap' = [heap EXCEPT ![i].buffer = @ - 1,
                                  ![i].pending = IF @ > 0 THEN @ - 1 ELSE 0,
                                  ![i].processed = TRUE]
    /\ UNCHANGED <<sources, closed, contexts, ret, scaled, taskVars>>

\* a child goroutine's select takes the closed donech: the goroutine returns
ChildReturn ==
    /\ Running
    /\ \E i \in 1..Len(heap) :
         /\ Leaving(heap[i]) > 0
         /\ heap' = [heap EXCEPT ![i].alive = @ - 1]
    /\ UNCHANGED <<sources, closed, contexts, ret, scaled, taskVars>>

NextChild ==
    \/ BuilderAddSource
    \/ BuilderBuild
    \/ StreamStart
    \/ StreamClose
    \/ Contexts
    \/ Scale
    \/ SourceForward
    \/ SourceReturn
    \/ SourceFail
    \/ ChildProcess
    \/ ChildReturn

\* the child-context Stream has no error handler
InitChild == Init /\ handler = FALSE

SpecChild == InitChild /\ [][NextChild]_vars

(***************************************************************************)
(* The stores (moss: src/config.go:341-545, leveldb:                       *)
(* src/store/tests.go:229-401).  Both keep their data in a collection of   *)
(* a library: the collection is a map from keys to values, its Get         *)
(* reports a key that is not there (moss: a nil value and a nil error,     *)
(* leveldb: ErrNotFound), its Delete of such a key succeeds, and its       *)
(* iterators run over a snapshot of the collection.  Keys and values are   *)
(* non-empty byte strings.                                                 *)
(***************************************************************************)
restVars == <<topoVars, runVars, closeVars, config, pc, crashed, startRet,
              call, handler, records, childVars, confVars>>

\* a value of the collection or of a result: nil, or a byte string
None == <<>>
Some(v) == <<v>>

StoreKeys == Bytes \ {<<>>}
StoreValues == Bytes \ {<<>>}
Kinds == {"moss", "leveldb"}

\* the keys the collection d holds
KeysOf(d) == {k \in StoreKeys : d[k] # None}

\* the library's Get: moss.Collection.Get and leveldb.DB.Get
LibGet(kind, d, k) ==
    IF d[k] # None THEN [value |-> d[k], err |-> "nil"]
    ELSE IF kind = "moss" THEN [value |-> None, err |-> "nil"]
    ELSE [value |-> None, err |-> "ErrNotFound"]

\* a Get that hands the library's answer on as it is
DBGetAsLibrary(kind, d, k) == LibGet(kind, d, k)

\* DB.Get: the library's miss becomes ErrKeyNotFound
DBGet(kind, d, k) ==
    LET r == LibGet(kind, d, k) IN
    IF kind = "moss"
    THEN IF r.value = None /\ r.err = "nil"
         THEN [value |-> None, err |-> "KeyNotFound"] ELSE r
    ELSE IF r.err = "ErrNotFound"
         THEN [value |-> None, err |-> "KeyNotFound"] ELSE r

\* DB.Set: a batch with one Set (moss), Put (leveldb)
DBSet(d, k, v) == [d EXCEPT ![k] = Some(v)]

\* DB.Delete: a batch with one Del (moss), Delete (leveldb); the library
\* returns a nil error on a key that is not there
DBDelete(d, k) == [d EXCEPT ![k] = None]

\* DB.Init: a new, empty collection
StoreInit ==
    /\ db.kind = "none"
    /\ \E kind \in Kinds :
         db' = [kind |-> kind, data |-> [k \in StoreKeys |-> None]]
    /\ UNCHANGED <<hist, rng, restVars>>

StoreGet ==
    /\ db.kind # "none"
    /\ Len(hist) < MaxOps
    /\ \E k \in StoreKeys :
         hist' = Append(hist, [op |-> "Get", key |-> k, value |-> None,
                               res |-> DBGet(db.kind, db.data, k)])
    /\ UNCHANGED <<db, rng, restVars>>

StoreSet ==
    /\ db.kind # "none"
    /\ Len(hist) < MaxOps
    /\ \E k \in StoreKeys, v \in StoreValues :
         /\ db' = [db EXCEPT !.data = DBSet(db.data, k, v)]
         /\ hist' = Append(hist, [op |-> "Set", key |-> k, value |-> v,
                                  res |-> [value |-> None, err |-> "nil"]])
    /\ UNCHANGED <<rng, restVars>>

StoreDelete ==
    /\ db.kind # "none"
    /\ Len(hist) < MaxOps
    /\ \E k \in StoreKeys :
         /\ db' = [db EXCEPT !.data = DBDelete(db.data, k)]
         /\ hist' = Append(hist, [op |-> "Delete", key |-> k, value |-> None,
                                  res |-> [value |-> None, err |-> "nil"]])
    /\ UNCHANGED <<rng, restVars>>

\* the keys in the order the iterators yield them
KeyOrder == <<<<0>>, <<1>>>>

\* a goroutine calls DB.Range(nil, nil, cb) ...
StoreRangeCall ==
    /\ db.kind # "none"
    /\ rng.at \in {"idle", "done"}
    /\ rng' = [NoRange EXCEPT !.at = "called", !.atCall = KeysOf(db.data)]
    /\ UNCHANGED <<db, hist, restVars>>

\* ... Range takes the snapshot its iterator runs over (moss: d.db.Snapshot,
\* leveldb: d.db.NewIterator) ...
StoreRangeSnapshot ==
    /\ rng.at = "called"
    /\ rng' = [rng EXCEPT !.at = "iter", !.snap = db.data, !.i = 1]
    /\ UNCHANGED <<db, hist, restVars>>

\* ... and calls cb for every key of the snapshot, in order
StoreRangeStep ==
    /\ rng.at = "iter"
    /\ IF rng.i > Len(KeyOrder)
       THEN rng' = [rng EXCEPT !.at = "done"]
       ELSE rng' = [rng EXCEPT
                      !.i = @ + 1,
                      !.seen = IF rng.snap[KeyOrder[rng.i]] # None
                               THEN Append(@, KeyOrder[rng.i]) ELSE @]
    /\ UNCHANGED <<db, hist, restVars>>

NextStore ==
    \/ StoreInit
    \/ StoreGet
    \/ StoreSet
    \/ StoreDelete
    \/ StoreRangeCall
    \/ StoreRangeSnapshot
    \/ StoreRangeStep

SpecStore == Init /\ [][NextStore]_vars

(***************************************************************************)
(* Config (src/config.go:27-339).  A path is the list of names a dot       *)
(* separated path splits into.                                             *)
(***************************************************************************)
PathElems == {"a", "0", "1", "#"}
Paths == UNION {[1..n -> PathElems] : n \in 1..MaxPath}
ConfValues == {1, 2}

\* strconv.ParseInt(key, 10, 64): the number, -1 for an error
Digits == <<"0", "1", "2", "3">>
ParseInt(key) == IF \E d \in 1..Len(Digits) : Digits[d] = key
                 THEN (CHOOSE d \in 1..Len(Digits) : Digits[d] = key) - 1
                 ELSE -1

\* a runtime panic: index out of range
Fault == [t |-> "fault"]

\* search: in a map the key must be there; in a slice the key must parse
\* and must not be above len, and tmp[idx] faults for idx = len; any other
\* data is kept and the next name of the path is tried on it
RECURSIVE search(_, _)
search(data, path) ==
    IF path = <<>> THEN data
    ELSE IF data.t = "map"
    THEN IF path[1] \in DOMAIN data.m
         THEN search(data.m[path[1]], Tail(path)) ELSE Nil
    ELSE IF data.t = "arr"
    THEN LET idx == ParseInt(path[1]) IN
         IF idx < 0 \/ idx > Len(data.a) THEN Nil
         ELSE IF idx = Len(data.a) THEN Fault
         ELSE search(data.a[idx + 1], Tail(path))
    ELSE search(data, Tail(path))

\* m[key] = x
MapSet(f, key, x) ==
    [k \in DOMAIN f \cup {key} |-> IF k = key THEN x ELSE f[k]]

\* m[key].(map[string]interface{}), a new map when it is none
AsMap(f, key) ==
    IF key \in DOMAIN f /\ f[key].t = "map" THEN f[key].m ELSE <<>>

\* m[key].([]interface{}), nil when it is none
AsSlice(f, key) ==
    IF key \in DOMAIN f /\ f[key].t = "arr" THEN f[key].a ELSE <<>>

\* append(tmp, make([]interface{}, idx+1-len(tmp))...) when idx is past
\* the end
Grow(tmp, idx) ==
    IF Len(tmp) - 1 < idx
    THEN tmp \o [x \in 1..(idx + 1 - Len(tmp)) |-> Nil]
    ELSE tmp

\* set, on the map f: the map after the loop over the path
RECURSIVE set(_, _, _)
set(f, value, path) ==
    LET currentKey == path[1]
        nextKey == IF Len(path) > 1 THEN path[2] ELSE ""
        idx == ParseInt(nextKey)
    IN
    IF idx >= 0 \/ nextKey = "#"
    THEN LET rest == Tail(Tail(path))
             tmp == AsSlice(f, currentKey)
         IN
         IF nextKey = "#"
         THEN IF rest # <<>>
              THEN MapSet(f, currentKey,
                          ArrOf(Append(tmp, MapOf(set(<<>>, value, rest)))))
              ELSE MapSet(f, currentKey, ArrOf(Append(tmp, ValOf(value))))
         ELSE LET grown == Grow(tmp, idx) IN
              IF rest # <<>>
              THEN LET next == IF grown[idx + 1].t = "map"
                               THEN grown[idx + 1].m ELSE <<>>
                   IN MapSet(f, currentKey,
                             ArrOf([grown EXCEPT
                                      ![idx + 1] = MapOf(set(next, value, rest))]))
              ELSE MapSet(f, currentKey,
                          ArrOf([grown EXCEPT ![idx + 1] = ValOf(value)]))
    ELSE IF Len(path) > 1
    THEN MapSet(f, currentKey,
                MapOf(set(AsMap(f, currentKey), value, Tail(path))))
    ELSE MapSet(f, currentKey, ValOf(value))

\* Config.IsSet: "fault" when search panics
IsSet(c, path) == LET d == search(c, path) IN
                  IF d = Fault THEN "fault"
                  ELSE IF d # Nil THEN "true" ELSE "false"

\* Config.Get(path).Int(def): the default for nil and for data that is no
\* number; "fault" when search panics
GetInt(c, path, def) == LET d == search(c, path) IN
                        IF d = Fault THEN "fault"
                        ELSE IF d.t = "val" THEN d.v ELSE def

\* Config.Set
ConfigSet ==
    /\ Len(setLog) < MaxSets
    /\ \E value \in ConfValues, path \in Paths :
         /\ conf' = MapOf(set(conf.m, value, path))
         /\ setLog' = Append(setLog, [value |-> value, path |-> path])
    /\ UNCHANGED <<topoVars, runVars, closeVars, config, pc, crashed,
                   startRet, call, handler, records, childVars, storeVars>>

SpecConfig == Init /\ [][ConfigSet]_vars

(***************************************************************************)
(* What no behaviour of the program reaches.  Every setScale call ends in  *)
(* RUnlock on the mutex it write-locked, and initTasks calls setScale for  *)
(* every node that may forward, before any context exists.                 *)
(***************************************************************************)
\* a task list, once made, stays write-locked; no context exists beside it
TaskListsStayLocked ==
    \A n \in 1..Len(objs) :
        tasksMap[n] # NIL =>
            /\ tasksMap[n].mu.w
            /\ tasksMap[n].mu.readers = 0
            /\ \A m \in Ids : ctxOf[m] = NIL /\ procOf[m] = NIL

\* setScale never returns to its caller
SetScaleNeverReturns ==
    [][pc.at = "setScale" => pc'.at = "setScale"]_vars

\* no Forward passes the gate, no ForwardTo finds its target, and Close
\* never enters the loop around closer.Close(): Process is never invoked
EngineNeverRuns ==
    /\ call.res \in {"none", "InvalidForward", "NodeNotFound",
                   "StoreNotFound"}
    /\ pc.at # "spin"
    /\ ~ENABLED CloseSpin
    /\ \A n \in 1..Len(objs) :
          ctxOf[n] # NIL /\ IsActive(n) =>
              objs[n].typ = Source /\ objs[n].successors = <<>>

(***************************************************************************)
(* Claims.                                                                 *)
(***************************************************************************)

\* C4: a Forward on the context of a Sink, of a node without successors or
\* of an inactive context returns InvalidForward and changes nothing: no task
\* buffer, no activation counter, no fault.
C4_ForwardGate ==
    [][(call' # call /\ call'.op = "Forward") =>
          LET n == call'.node IN
          (objs[n].typ = Sink \/ Len(objs[n].successors) = 0
              \/ ctxOf[n].active = 0) =>
                 /\ call'.res = "InvalidForward"
                 /\ UNCHANGED <<tasksMap, ctxOf, procOf, crashed>>]_vars

\* C4, reached: a Forward on the active context of a source that has no
\* successors was refused
C4_Witness ==
    /\ call.op = "Forward"
    /\ call.res = "InvalidForward"
    /\ ctxOf[call.node].active > 0
    /\ objs[call.node].successors = <<>>
    /\ consume[call.node] = "running"

\* C5: on a stream whose Start returned nil and whose Closers all return
\* nil, a Stream.Close that has ended has returned nil.
C5_CloseReturnsNil ==
    (/\ startRet = "nil"
     /\ nCloses > 0
     /\ ~closerErr
     /\ pc.at = "idle") => closeRet = "nil"

\* C8: during one Stream.Close no instance that implements Closer is closed
\* more than once, and each was closed exactly once when Close returned nil.
C8_CloseOncePerInstance ==
    \A n \in closeInst :
        /\ closeCalls[n] <= 1
        /\ (startRet = "nil" /\ closeRet = "nil" => closeCalls[n] = 1)

\* C10: when Stream.Close has returned nil, Close() was invoked on every
\* store (node added with addStore) whose instance implements Closer.
C10_StoresClosed ==
    startRet = "nil" /\ closeRet = "nil" =>
        \A n \in closeInst : objs[n].typ = Store => closeCalls[n] >= 1

\* C11: when Stream.Close has returned the error of some Closer, Close() was
\* still invoked on every source, processor and sink instance that
\* implements Closer.
C11_CloseContinuesAfterError ==
    (startRet = "nil" /\ closeRet = "err") =>
        \A n \in closeInst : objs[n].typ # Store => closeCalls[n] >= 1

\* C14: when Stream.Start has returned nil, Node.init was called exactly once
\* on every node of the topology.
C14_InitOncePerNode ==
    startRet = "nil" =>
        \A i \in 1..Len(tnodes) : initCalls[tnodes[i]] = 1

\* C14, reached: Start returned nil on a topology with a store and a source
C14_Witness ==
    /\ startRet = "nil"
    /\ \E i, j \in 1..Len(tnodes) :
          /\ objs[tnodes[i]].typ = Store
          /\ objs[tnodes[j]].typ = Source
          /\ initCalls[tnodes[i]] = 1
          /\ initCalls[tnodes[j]] = 1

\* C15: after a Stream.Start that returned the error of a failed init, a
\* Stream.Close dereferences no nil context and no nil task list.
C15_CloseAfterFailedStart ==
    startRet = "err" => crashed = "no"

\* a node of the topology has the given name
InTopology(name) ==
    \E i \in 1..Len(tnodes) : objs[tnodes[i]].name = name

\* C16: on a started stream Store(name) returns StoreNotFound exactly when
\* no store was added to the topology under that name.
C16_StoreLookup ==
    (startRet = "nil" /\ call.op = "Store") =>
        (call.res = "StoreNotFound" <=>
            ~\E i \in 1..Len(tnodes) : /\ objs[tnodes[i]].typ = Store
                                       /\ objs[tnodes[i]].name = call.arg)

\* C17: ForwardTo returns NodeNotFound only when no node of the topology has
\* the target's name.
C17_ForwardToNodeNotFound ==
    (call.op = "ForwardTo" /\ call.res = "NodeNotFound") =>
        ~InTopology(call.arg)

C19_SourceInactiveAfterConsume ==
    \A n \in 1..Len(objs) : consume[n] = "returned" => ctxOf[n].active = 0

\* the errors of the invariants an add operation with these arguments
\* violates
AddViolations(name, typ, preds) ==
    (IF name = "" THEN {"EmptyName"} ELSE {})
    \cup (IF \/ InTopology(name)
             \/ typ \in {Processor, Sink} /\ preds = <<>>
             \/ \E k \in 1..Len(preds) : preds[k] = name
             \/ \E k \in 1..Len(preds), i \in 1..Len(tnodes) :
                   /\ objs[tnodes[i]].name = preds[k]
                   /\ objs[tnodes[i]].typ = Sink
             THEN {"InvalidTopology"} ELSE {})
    \cup (IF \E k \in 1..Len(preds) : ~InTopology(preds[k])
             THEN {"PredecessorNotFound"} ELSE {})

TopologyIds == {tnodes[i] : i \in 1..Len(tnodes)}

\* the elements of a sequence
Range(seq) == {seq[k] : k \in 1..Len(seq)}

\* C21: after any sequence of add operations the names of the nodes are
\* unique, a Source has no predecessor, a Processor or Sink has one at least,
\* no predecessor is a Sink or the node itself, every edge goes from an
\* earlier-added node to a later-added one, and every successor and
\* predecessor of a node is a node of the topology with the mirrored link.
C21_GraphInvariants ==
    /\ \A i, j \in 1..Len(tnodes) :
          objs[tnodes[i]].name = objs[tnodes[j]].name => i = j
    /\ \A n \in TopologyIds :
          /\ objs[n].typ = Source => objs[n].predecessors = <<>>
          /\ objs[n].typ \in {Processor, Sink} => objs[n].predecessors # <<>>
          /\ \A m \in Range(objs[n].predecessors) :
                /\ objs[m].typ # Sink
                /\ m < n
                /\ m \in TopologyIds
                /\ n \in Range(objs[m].successors)
          /\ \A m \in Range(objs[n].successors) :
                /\ n < m
                /\ m \in TopologyIds
                /\ n \in Range(objs[m].predecessors)

\* C22: an add operation that returns an error leaves the node list, the
\* roots and every existing node, its successors and predecessors, as they
\* were.
C22_FailedAddChangesNothing ==
    [][(pc'.at = "build" /\ addCall'.op = "add" /\ addErr' # "nil") =>
          /\ UNCHANGED <<tnodes, troots>>
          /\ \A n \in 1..Len(objs) : objs'[n] = objs[n]]_vars

\* the names of the nodes with the given ids in the heap os
NamesOf(os, ids) == [k \in 1..Len(ids) |-> os[ids[k]].name]

\* C23: clone() of a built topology returns no error and a topology with the
\* same names, types and edges, in which each store is the node of the
\* original and no new node, and it leaves the original unchanged.
C23_CloneSharesStores ==
    [][(cloned' # cloned /\ cloned'.done /\ C21_GraphInvariants) =>
          /\ cloned'.err = "nil"
          /\ UNCHANGED <<objs, tnodes, troots, tstores>>
          /\ NamesOf(cloned'.objs, cloned'.nodes) = NamesOf(objs, tnodes)
          /\ \A i \in 1..Len(tnodes) :
                LET o == objs[tnodes[i]]
                    c == cloned'.objs[cloned'.nodes[i]]
                IN  /\ c.typ = o.typ
                    /\ NamesOf(cloned'.objs, c.predecessors)
                          = NamesOf(objs, o.predecessors)
                    /\ NamesOf(cloned'.objs, c.successors)
                          = NamesOf(objs, o.successors)
                    /\ o.typ = Store =>
                          <<o.name, tnodes[i]>> \in cloned'.stores]_vars

\* C24: for a node whose configuration holds no tasks.count entry,
\* Stream.initTasks scales the node's task layer to the default initial
\* scale, 1.
C24_DefaultInitialScale ==
    (/\ pc.at = "setScale"
     /\ pc.from = "initTasks"
     /\ config[objs[pc.n].name].count = <<>>) =>
        pc.scale = DefaultInitialScale

\* C25: every task buffer has the capacity of the node's configured
\* tasks.buffer_size, or 1024 when none is configured, and never holds more
\* records than its capacity.
C25_BufferCapacity ==
    \A n \in 1..Len(objs) :
        tasksMap[n] # NIL =>
            \A k \in 1..Len(tasksMap[n].buffers) :
                LET task == tasksMap[n].buffers[k] IN
                /\ task.cap = ConfigInt(config[objs[n].name].buffer_size,
                                  DefaultBufferSize)
                /\ Len(task.q) <= task.cap

ClosedContextStreamRejects ==
    [][(closed /\ ret' # ret) =>
          /\ ret'.res = "StreamClosed"
          /\ UNCHANGED <<closed, contexts, heap>>]_vars

\* C27: after Stream.Close has been called once, a later Stream.Close
\* returns StreamClosed.
C27_ClosedStreamRejects ==
    (nCloses >= 2 /\ pc.at = "idle" /\ crashed = "no") =>
        closeRet = "StreamClosed"

C29_ContextsReportScale ==
    [][(ret' # ret /\ ret'.res = "nil") =>
          /\ ret'.op = "Scale" =>
                 heap'[FindContext(ret'.name, 1)].childrens = ret'.scale
          /\ ret'.op = "Start" =>
                 \A k \in 1..Len(contexts') :
                     heap'[contexts'[k]].childrens = DefaultInitialScale
          /\ ret'.op = "Contexts" =>
                 /\ Len(ret'.infos) = Len(contexts)
                 /\ \A k \in 1..Len(contexts) :
                      LET c == heap[contexts[k]] IN
                        /\ ret'.infos[k].Name = c.name
                        /\ ret'.infos[k].Scale = c.childrens
                        /\ ret'.infos[k].BufferSize = c.cap]_vars

\* C30: Scale(name, 0) on a started source of a stream that is not closed
\* returns nil and leaves the context without children, so that the source
\* forwards inline.
C30_ScaleZeroAccepted ==
    [][(/\ ret' # ret
        /\ ret'.op = "Scale"
        /\ ret'.scale = 0
        /\ ~closed
        /\ FindContext(ret'.name, 1) # 0) =>
          /\ ret'.res = "nil"
          /\ heap'[FindContext(ret'.name, 1)].childrens = 0]_vars

\* C31: a record that is in the buffer of a Context when its Context.close
\* ends (the close timeout has expired, or the buffer was empty and there
\* was no wait) is dropped: no child takes it afterwards.
C31_CloseTimeoutDrops ==
    [][\A i \in 1..Len(heap) : heap'[i].pending >= heap[i].pending]_vars

\* the value of the last Set of k among the first i calls that no Delete of
\* k follows, None when there is none
RECURSIVE LastSet(_, _, _)
LastSet(h, k, i) ==
    IF i = 0 THEN None
    ELSE IF h[i].key = k /\ h[i].op = "Set" THEN Some(h[i].value)
    ELSE IF h[i].key = k /\ h[i].op = "Delete" THEN None
    ELSE LastSet(h, k, i - 1)

C33_RangeSeesAllKeys ==
    rng.at = "done" =>
        /\ rng.atCall \subseteq Range(rng.seen)
        /\ Len(rng.seen) = Cardinality(Range(rng.seen))

\* q is a prefix of p, or p itself
IsPrefix(q, p) == Len(q) <= Len(p) /\ SubSeq(p, 1, Len(q)) = q

\* a path made of map keys and array indices
IndexPath(p) == \A n \in 1..Len(p) : p[n] # "#"

\* no Set call so far has set p or a path below p
NeverSet(p) ==
    \A i \in 1..Len(setLog) :
        IndexPath(setLog[i].path) /\ ~IsPrefix(p, setLog[i].path)

\* right after Set(v, p), for a path p of map keys and array indices,
\* Get(p) yields v and IsSet holds of p and of every proper prefix of p
ConfigRoundTrip ==
    setLog # <<>> =>
        LET last == setLog[Len(setLog)] IN
        IndexPath(last.path) =>
            /\ GetInt(conf, last.path, 0) = last.value
            /\ \A n \in 1..Len(last.path) :
                   IsSet(conf, SubSeq(last.path, 1, n)) = "true"

\* C34: right after Set(v, p), for a path p of map keys and array indices,
\* Get(p) yields v and IsSet holds of p and of every proper prefix of p;
\* Get of a path that was never set yields the caller's default.
C34_SetGetRoundTrip ==
    /\ setLog # <<>> =>
         LET last == setLog[Len(setLog)] IN
         IndexPath(last.path) =>
             /\ GetInt(conf, last.path, 0) = last.value
             /\ \A n \in 1..Len(last.path) :
                    IsSet(conf, SubSeq(last.path, 1, n)) = "true"
    /\ \A p \in Paths : NeverSet(p) => GetInt(conf, p, 0) = 0

\* C35: IsSet(p) is false, and does not fault, for every path p that
\* indexes an array at a position that is past its end or was not set.
C35_IsSetUnsetIndex ==
    \A p \in Paths : \A n \in 1..Len(p) :
        LET d == search(conf, SubSeq(p, 1, n - 1))
            idx == ParseInt(p[n])
        IN (/\ d.t = "arr"
            /\ idx >= 0
            /\ (idx >= Len(d.a) \/ d.a[idx + 1] = Nil)) =>
               IsSet(conf, p) = "false"

\* C38: setScale releases the write lock it took: its unlock never stops
\* the process for releasing a lock that is not held, and whenever the
\* client is not inside setScale every task list's lock is free.
C38_SetScaleReleasesLock ==
    /\ crashed # "fatal"
    /\ pc.at # "setScale" =>
         \A n \in 1..Len(objs) :
             tasksMap[n] # NIL => CanLock(tasksMap[n].mu)

\* C40: a Stream.Close that has begun and not returned has not faulted.
C40_CloseNeverFaults ==
    (nCloses > 0 /\ closeRet = "none") => crashed # "panic"

====
